---- MODULE Spec2Model ----
(***************************************************************************)
(* SAIL codec discovery and thread-local context lifecycle                 *)
(* (src/libsail/context_private.c).                                        *)
(*                                                                         *)
(* C strings are sequences of one-character strings; a "char *" that may   *)
(* be NULL is <<>> (NULL) or <<s>> (a pointer to the string s).  Context   *)
(* pointers are indices into a heap of context objects, 0 being NULL.      *)
(* Both #ifdef SAIL_WIN32 branches are modelled; the build is the          *)
(* variable platform, fixed in the initial state.                          *)
(***************************************************************************)
EXTENDS Integers, Sequences, FiniteSets, TLC

VARIABLES
    platform,          \* "posix" or "win32": which #ifdef SAIL_WIN32 branch is compiled
    fs,                \* the file system: directory path -> [exists, lib, entries]
    environ,           \* the process environment (SAIL_CODECS_PATH, SAIL_MY_CODECS_PATH)
    loader,            \* the dynamic loader's search path (LD_LIBRARY_PATH / DLL directories)
    tls_context,       \* control_tls_context's thread-local tls_context, per thread
    heap,              \* the struct sail_context objects, by address
    codecs_path_memo,  \* sail_codecs_path's thread-local statics, per thread
    client_path_memo,  \* client_codecs_path's thread-local statics, per thread
    discoveries,       \* number of discovery passes run by the process so far
    getenv_calls,      \* how often the process has read each override variable
    ret,               \* the last public call: which, by whom, status, *context
    path_in,           \* argument of a stand-alone build_codec_from_codec_info call
    path_out,          \* its result
    level_in,          \* the sail_compression_level of a sail::compression_level object
    level_out          \* what is_valid returned on it

vars == <<platform, fs, environ, loader, tls_context, heap, codecs_path_memo,
          client_path_memo, discoveries, getenv_calls, ret, path_in, path_out,
          level_in, level_out>>

\* The variables of the compression level object.
levelVars == <<level_in, level_out>>

-----------------------------------------------------------------------------
(* Bounds *)

\* Size of the heap: how many struct sail_context can be live at once.
MaxContexts == 2
\* How many discovery passes the process runs (each may grow the loader path).
MaxDiscoveries == 2

\* How many times load_codec_by_codec_info is called on one descriptor.
MaxLoads == 1

Threads == {"t1", "t2"}
MainThread == "t1"
Platforms == {"posix", "win32"}
ContextIds == 1..MaxContexts

-----------------------------------------------------------------------------
(* Status codes *)

SAIL_OK == "SAIL_OK"
SAIL_ERROR_MEMORY_ALLOCATION == "SAIL_ERROR_MEMORY_ALLOCATION"
SAIL_ERROR_PARSE_FILE == "SAIL_ERROR_PARSE_FILE"
SAIL_ERROR_LIST_DIR == "SAIL_ERROR_LIST_DIR"
SAIL_ERROR_ENV_UPDATE == "SAIL_ERROR_ENV_UPDATE"
SAIL_ERROR_CODEC_LOAD == "SAIL_ERROR_CODEC_LOAD"

SAIL_FLAG_PRELOAD_CODECS == "SAIL_FLAG_PRELOAD_CODECS"
Flags == {{}, {SAIL_FLAG_PRELOAD_CODECS}}

-----------------------------------------------------------------------------
(* Strings *)

NullStr == <<>>
Ptr(s) == <<s>>
Deref(p) == p[1]

CODEC_INFO == <<".", "c", "o", "d", "e", "c", ".", "i", "n", "f", "o">>
LIB_SUFFIX(plat) == IF plat = "win32" THEN <<"d", "l", "l">> ELSE <<"s", "o">>
Separator(plat) == IF plat = "win32" THEN <<"\\">> ELSE <<"/">>

SetMin(S) == CHOOSE x \in S : \A y \in S : x <= y

\* strstr: the offset of the first occurrence of needle in haystack, -1 for NULL.
strstr(haystack, needle) ==
    LET starts == { i \in 0..(Len(haystack) - Len(needle)) :
                      SubSeq(haystack, i + 1, i + Len(needle)) = needle }
    IN  IF starts = {} THEN 0 - 1 ELSE SetMin(starts)

\* sail_concat of two or three strings.
sail_concat2(a, b) == a \o b
sail_concat3(a, b, c) == a \o b \o c

\* sail_strdup_length: a copy of the first length bytes of s.
sail_strdup_length(s, length) == SubSeq(s, 1, length)

\* strcpy(buf + offset, src): buf up to offset, then src and its terminator.
strcpy_at(buf, offset, src) == SubSeq(buf, 1, offset) \o src

EndsWith(s, suffix) ==
    /\ Len(s) >= Len(suffix)
    /\ SubSeq(s, Len(s) - Len(suffix) + 1, Len(s)) = suffix

Contains(s, part) == strstr(s, part) >= 0

\* s without its trailing suffix (s must end with it).
StripSuffix(s, suffix) == SubSeq(s, 1, Len(s) - Len(suffix))

build_full_path(plat, sail_codecs_path, name) ==
    sail_concat3(sail_codecs_path, Separator(plat), name)

-----------------------------------------------------------------------------
(* Codec info nodes *)

NoNode == [info |-> <<>>, path |-> <<>>, codec |-> FALSE, loads |-> 0,
           from |-> <<0, 0>>]

\* codec_read_info: whether the file parses as codec metadata.
codec_read_info(file) == file.kind = "file" /\ file.parses

\* The status returned when the path holds no ".codec.info".
MissingSuffixStatus == SAIL_ERROR_MEMORY_ALLOCATION

\* build_codec_from_codec_info: [status, node].  file is what the path names;
\* from = <<search path index, enumeration position>> records where the walk
\* found it, loads counts the load_codec_by_codec_info calls on the node.
build_codec_from_codec_info(plat, codec_info_full_path, file, from) ==
    LET codec_info_part == strstr(codec_info_full_path, CODEC_INFO) IN
    IF codec_info_part < 0
    THEN [status |-> MissingSuffixStatus, node |-> NoNode]
    ELSE
        LET \* strlen(codec_info_full_path) - strlen(codec_info_part)
            codec_full_path_length ==
                Len(codec_info_full_path) - (Len(codec_info_full_path) - codec_info_part)
            dup == sail_strdup_length(codec_info_full_path,
                       codec_full_path_length + Len(LIB_SUFFIX(plat)) + 1)
            codec_full_path == strcpy_at(dup, codec_full_path_length + 1, LIB_SUFFIX(plat))
        IN  IF ~codec_read_info(file)
            THEN [status |-> SAIL_ERROR_PARSE_FILE, node |-> NoNode]
            ELSE [status |-> SAIL_OK,
                  node |-> [info |-> codec_info_full_path, path |-> codec_full_path,
                            codec |-> FALSE, loads |-> 0, from |-> from]]


-----------------------------------------------------------------------------
(* The file system the process runs on *)

SAIL_CODECS_PATH == <<"/", "s">>                       \* the compiled-in codecs path
DIR_USER == <<"/", "u">>
DIR_SUFFIXED == <<"/", "w">> \o CODEC_INFO              \* a directory named "/w.codec.info"
DIR_EMPTY == <<"/", "e">>
DIR_MISSING == <<"/", "n">>                            \* does not exist
\* "\bin" of "\bin\sail.dll", and the codecs path derived from it (win32)
DLL_DIR == <<"\\", "b">>
CODECS_RELATIVE_PATH == <<"\\", ".", ".", "\\", "l", "i", "b", "\\", "c">>
DIR_DERIVED == DLL_DIR \o CODECS_RELATIVE_PATH
\* what an uninitialized char* may point to: no directory at all, or some directory
GARBAGE == <<"?">>

Dirs == {SAIL_CODECS_PATH, DIR_USER, DIR_SUFFIXED, DIR_EMPTY, DIR_MISSING,
         DIR_DERIVED, GARBAGE}

File(stem, ext, parses, module) ==
    [name |-> stem \o ext, kind |-> "file", parses |-> parses, module |-> module]
Directory(stem, ext) ==
    [name |-> stem \o ext, kind |-> "dir", parses |-> FALSE, module |-> FALSE]

BAK == <<".", "b", "a", "k">>
TXT == <<".", "t", "x", "t">>

\* The directories' contents; order is the permutation the file system
\* enumerates three-entry directories in.
FileSystem(order) ==
    LET Listed(entries) == [k \in 1..3 |-> entries[order[k]]] IN
    [d \in Dirs |->
        CASE d = SAIL_CODECS_PATH ->
                [exists |-> TRUE, lib |-> TRUE,
                 entries |-> Listed(<< File(<<"j">>, CODEC_INFO, TRUE, TRUE),
                                       File(<<"g">>, CODEC_INFO, TRUE, FALSE),
                                       File(<<"p">>, CODEC_INFO, FALSE, TRUE) >>)]
          [] d = DIR_USER ->
                [exists |-> TRUE, lib |-> TRUE,
                 entries |-> Listed(<< File(<<"t">>, CODEC_INFO, TRUE, TRUE),
                                       File(<<"t">>, CODEC_INFO \o BAK, TRUE, FALSE),
                                       File(<<"r">>, TXT, FALSE, FALSE) >>)]
          [] d = DIR_SUFFIXED ->
                [exists |-> TRUE, lib |-> FALSE,
                 entries |-> << File(<<"k">>, CODEC_INFO, TRUE, TRUE),
                                Directory(<<"d">>, CODEC_INFO) >>]
          [] d = DIR_EMPTY ->
                [exists |-> TRUE, lib |-> FALSE, entries |-> <<>>]
          [] d = DIR_DERIVED ->
                [exists |-> TRUE, lib |-> TRUE,
                 entries |-> << File(<<"b">>, CODEC_INFO, TRUE, TRUE) >>]
          [] OTHER ->
                [exists |-> FALSE, lib |-> FALSE, entries |-> <<>>] ]

FileSystems == { FileSystem(order) : order \in Permutations(1..3) }

\* sail_is_file on a directory entry's full path.
sail_is_file(file) == file.kind = "file"

\* sail_is_dir on the "lib" subdirectory of a codecs path.
sail_is_dir_lib(fsys, codecs_path) == fsys[codecs_path].exists /\ fsys[codecs_path].lib

\* The module files present: beside each metadata file marked module, the file
\* named like it with the trailing ".codec.info" replaced by the platform suffix.
ModuleFiles(plat, fsys) ==
    LET paired == { de \in Dirs \X (1..3) :
                      /\ de[2] <= Len(fsys[de[1]].entries)
                      /\ fsys[de[1]].entries[de[2]].module
                      /\ EndsWith(fsys[de[1]].entries[de[2]].name, CODEC_INFO) }
    IN  { build_full_path(plat, de[1],
              StripSuffix(fsys[de[1]].entries[de[2]].name, CODEC_INFO)
                  \o <<".">> \o LIB_SUFFIX(plat)) : de \in paired }

\* load_codec_by_codec_info: the module is loaded (and the handle cached in the
\* codec info) when the file at the derived path can be opened.
load_codec_by_codec_info(plat, fsys, node) ==
    [node EXCEPT !.codec = node.codec \/ node.path \in ModuleFiles(plat, fsys),
                 !.loads = @ + 1]

-----------------------------------------------------------------------------
(* Search path resolution *)

\* The thread-local statics of a resolver before its first call.  from_getenv
\* (env is the pointer getenv returned, into the environment), derivation
\* (whether the win32 derivation ran, and how it ended) and first (the string
\* the first resolution returned) are bookkeeping, not statics of the function.
NotCalled == [codecs_path_called |-> FALSE, env |-> NullStr,
              from_getenv |-> FALSE, derivation |-> "none", first |-> NullStr]

getenv(env, name) == env[name]

\* What the win32 branch of sail_codecs_path can meet when SAIL_CODECS_PATH is
\* unset: each lookup may fail, the module path may hold no separator, the
\* concatenation may fail, or all succeed.
ModuleLookups == {"GetModuleHandleEx_failed", "GetModuleFileName_failed",
                  "no_separator", "concat_failed", "derived"}

\* Variant: the statics are not consulted, every call resolves anew.
memo_ignored(memo) == FALSE

\* if (codecs_path_called) return env;
memo_called(memo) == memo.codecs_path_called

\* The win32 derivation of "\bin\..\lib\c" from "\bin\sail.dll" (lines 63-104).
\* garbage is the value of the uninitialized lib_sail_codecs_path that line
\* 101 assigns after a failed sail_concat.
derive_or_fall_back(lookup, garbage) ==
    CASE lookup = "derived" -> Ptr(sail_concat2(DLL_DIR, CODECS_RELATIVE_PATH))
      [] lookup = "concat_failed" -> Ptr(garbage)
      [] OTHER -> Ptr(SAIL_CODECS_PATH)

\* sail_codecs_path: [memo, path, getenv]; getenv is the number of times the
\* call read the environment variable.
sail_codecs_path(plat, memo, env, lookup, garbage) ==
    IF memo_called(memo)
    THEN [memo |-> memo, path |-> memo.env, getenv |-> 0]
    ELSE
        LET fromEnv == getenv(env, "SAIL_CODECS_PATH")
            resolved ==
                IF fromEnv # NullStr THEN fromEnv
                ELSE IF plat = "posix" THEN Ptr(SAIL_CODECS_PATH)
                ELSE derive_or_fall_back(lookup, garbage)
        IN  [memo |-> [codecs_path_called |-> TRUE, env |-> resolved,
                       from_getenv |-> plat = "posix" /\ fromEnv # NullStr,
                       derivation |->
                           IF plat = "win32" /\ fromEnv = NullStr
                           THEN (IF lookup = "derived" THEN "derived" ELSE "failed")
                           ELSE "none",
                       first |-> resolved],
             path |-> resolved, getenv |-> 1]

\* client_codecs_path: [memo, path, getenv]; the path is NULL when the variable
\* is unset.
client_codecs_path(plat, memo, env) ==
    IF memo_called(memo)
    THEN [memo |-> memo, path |-> memo.env, getenv |-> 0]
    ELSE LET fromEnv == getenv(env, "SAIL_MY_CODECS_PATH")
         IN  [memo |-> [codecs_path_called |-> TRUE, env |-> fromEnv,
                        from_getenv |-> plat = "posix" /\ fromEnv # NullStr,
                        derivation |-> "none", first |-> fromEnv],
              path |-> fromEnv, getenv |-> 1]

-----------------------------------------------------------------------------
(* Dynamic loader path extension *)

NoLoaderPath == [LD_LIBRARY_PATH |-> NullStr, dll_directories |-> <<>>]

\* The entries of a colon-separated list such as LD_LIBRARY_PATH.
RECURSIVE SplitAtColons(_)
SplitAtColons(s) ==
    LET colon == strstr(s, <<":">>) IN
    IF colon < 0 THEN <<s>>
    ELSE <<SubSeq(s, 1, colon)>> \o SplitAtColons(SubSeq(s, colon + 2, Len(s)))

\* Variant: a directory that LD_LIBRARY_PATH lists already is not added again.
deduplicated_ld_library_path(env, full_path_to_lib) ==
    IF env = NullStr THEN full_path_to_lib
    ELSE IF \E k \in 1..Len(SplitAtColons(Deref(env))) :
                SplitAtColons(Deref(env))[k] = full_path_to_lib
    THEN Deref(env)
    ELSE sail_concat3(Deref(env), <<":">>, full_path_to_lib)

\* The value handed to setenv: the directory alone when getenv returned NULL,
\* else the old value, ":" and the directory (lines 189-195).
combined_ld_library_path(env, full_path_to_lib) ==
    IF env = NullStr THEN full_path_to_lib
    ELSE sail_concat3(Deref(env), <<":">>, full_path_to_lib)

\* update_lib_path: [status, loader].  os_ok is whether setenv / AddDllDirectory
\* succeeds when it is called.
update_lib_path(plat, fsys, ldr, codecs_path, os_ok) ==
    LET full_path_to_lib ==
            sail_concat2(codecs_path, Separator(plat) \o <<"l", "i", "b">>)
    IN
    IF ~sail_is_dir_lib(fsys, codecs_path)
    THEN [status |-> SAIL_OK, loader |-> ldr]
    ELSE IF plat = "win32"
    THEN IF os_ok
         THEN [status |-> SAIL_OK,
               loader |-> [ldr EXCEPT !.dll_directories = Append(@, full_path_to_lib)]]
         ELSE [status |-> SAIL_ERROR_ENV_UPDATE, loader |-> ldr]
    ELSE
        LET env == ldr.LD_LIBRARY_PATH IN
        IF os_ok
        THEN [status |-> SAIL_OK,
              loader |-> [ldr EXCEPT !.LD_LIBRARY_PATH =
                                        Ptr(combined_ld_library_path(env, full_path_to_lib))]]
        ELSE [status |-> SAIL_ERROR_ENV_UPDATE, loader |-> ldr]

-----------------------------------------------------------------------------
(* The directory walk *)

\* Variant: the new node is linked in at the head of the chain.
prepend_node(chain, codec_info_node) == <<codec_info_node>> \o chain

\* *last_codec_info_node = codec_info_node; last_codec_info_node = &codec_info_node->next
append_node(chain, codec_info_node) == Append(chain, codec_info_node)

\* opendir succeeds on an existing directory.
opendir(fsys, codecs_path) == fsys[codecs_path].exists

\* The readdir loop of the POSIX branch, from entry k on.
RECURSIVE readdir_loop(_, _, _, _, _)
readdir_loop(fsys, i, codecs_path, k, chain) ==
    IF k > Len(fsys[codecs_path].entries) THEN chain
    ELSE
        LET dir == fsys[codecs_path].entries[k]
            full_path == build_full_path("posix", codecs_path, dir.name)
            is_codec_info == strstr(full_path, CODEC_INFO) >= 0
            built == build_codec_from_codec_info("posix", full_path, dir, <<i, k>>)
        IN  readdir_loop(fsys, i, codecs_path, k + 1,
                IF sail_is_file(dir) /\ is_codec_info /\ built.status = SAIL_OK
                THEN append_node(chain, built.node)
                ELSE chain)

\* FindFirstFile / FindNextFile with the mask "\*.codec.info": the positions of
\* the entries the mask matches, in enumeration order; none when the directory
\* does not exist.
FindFiles(fsys, codecs_path) ==
    IF ~fsys[codecs_path].exists THEN <<>>
    ELSE SelectSeq([k \in 1..Len(fsys[codecs_path].entries) |-> k],
                   LAMBDA k : EndsWith(fsys[codecs_path].entries[k].name, CODEC_INFO))

\* The do-while loop of the win32 branch over the files found, from the n-th on.
RECURSIVE find_loop(_, _, _, _, _, _)
find_loop(fsys, i, codecs_path, found, n, chain) ==
    IF n > Len(found) THEN chain
    ELSE
        LET data == fsys[codecs_path].entries[found[n]]
            full_path == build_full_path("win32", codecs_path, data.name)
            built == build_codec_from_codec_info("win32", full_path, data, <<i, found[n]>>)
        IN  find_loop(fsys, i, codecs_path, found, n + 1,
                IF built.status = SAIL_OK
                THEN append_node(chain, built.node)
                ELSE chain)

\* The for loop over codec_search_paths, from index i on: [status, chain].
RECURSIVE scan_paths(_, _, _, _, _)
scan_paths(plat, fsys, codec_search_paths, i, chain) ==
    IF i > Len(codec_search_paths) THEN [status |-> SAIL_OK, chain |-> chain]
    ELSE IF codec_search_paths[i] = NullStr
    THEN scan_paths(plat, fsys, codec_search_paths, i + 1, chain)
    ELSE
        LET codecs_path == Deref(codec_search_paths[i]) IN
        IF plat = "win32"
        THEN LET found == FindFiles(fsys, codecs_path) IN
             IF found = <<>>
             THEN [status |-> SAIL_ERROR_LIST_DIR, chain |-> chain]
             ELSE scan_paths(plat, fsys, codec_search_paths, i + 1,
                      find_loop(fsys, i, codecs_path, found, 1, chain))
        ELSE IF ~opendir(fsys, codecs_path)
             THEN scan_paths(plat, fsys, codec_search_paths, i + 1, chain)
             ELSE scan_paths(plat, fsys, codec_search_paths, i + 1,
                      readdir_loop(fsys, i, codecs_path, 1, chain))

\* The preload loop from node n on: load_codec_by_codec_info on every node,
\* errors ignored.
RECURSIVE preload_loop(_, _, _, _)
preload_loop(plat, fsys, chain, n) ==
    IF n > Len(chain) THEN chain
    ELSE preload_loop(plat, fsys,
             [chain EXCEPT ![n] = load_codec_by_codec_info(plat, fsys, chain[n])],
             n + 1)

\* codec_info_node = context->codec_info_node; while (codec_info_node != NULL) ...
preload_codecs(plat, fsys, chain) == preload_loop(plat, fsys, chain, 1)

-----------------------------------------------------------------------------
(* Contexts *)

\* No discovery pass has returned on the context yet.
NotRun == "not run"

\* A free heap cell.
Free == [live |-> FALSE, initialized |-> FALSE, codec_info_node |-> <<>>,
         owner |-> "", scans |-> 0, flags |-> {}, status |-> NotRun]

\* alloc_context: a fresh context; owner (the allocating thread), scans (the
\* discovery passes run on this object), flags and status (the flags and the
\* result of the call that ran the pass) are bookkeeping, not fields of the
\* struct.
alloc_context(t) ==
    [live |-> TRUE, initialized |-> FALSE, codec_info_node |-> <<>>,
     owner |-> t, scans |-> 0, flags |-> {}, status |-> NotRun]

\* Variant: the initialized check is missing.
never_initialized(context) == FALSE

\* if (context->initialized) return SAIL_OK;
already_initialized(context) == context.initialized

\* Variant: the flag is not set on entry.
leave_uninitialized(context) == context

\* context->initialized = true;
mark_initialized(context) == [context EXCEPT !.initialized = TRUE]

\* What the operating system answers during one init_context call: whether
\* setenv / AddDllDirectory succeeds for each search path, what the win32 module
\* lookup meets, and the value of the uninitialized pointer.  Answers the
\* call cannot consult are fixed, not enumerated: the lookup when the primary
\* path is not derived, setenv / AddDllDirectory for a path that has no lib
\* subdirectory or that the call does not get to.
OsAnswers(plat, fsys, env, codecs_memo, client_memo, context) ==
    LET resolves == ~already_initialized(context) /\ ~codecs_memo.codecs_path_called
                    /\ plat = "win32" /\ getenv(env, "SAIL_CODECS_PATH") = NullStr
        our(os) == sail_codecs_path(plat, codecs_memo, env, os.lookup, os.garbage).path
        their == client_codecs_path(plat, client_memo, env).path
        asked(os, i) ==
            /\ ~already_initialized(context)
            /\ IF i = 1 THEN sail_is_dir_lib(fsys, Deref(our(os)))
               ELSE /\ os.os_ok[1]
                    /\ their # NullStr
                    /\ sail_is_dir_lib(fsys, Deref(their))
    IN  { os \in [os_ok : [1..2 -> BOOLEAN], lookup : ModuleLookups,
                  garbage : {GARBAGE, DIR_USER}] :
            /\ \A i \in 1..2 : ~asked(os, i) => os.os_ok[i]
            /\ ~resolves => os.lookup = "derived"
            /\ os.lookup # "concat_failed" => os.garbage = GARBAGE }

\* Variant: a failure for the client path is logged and discovery continues.
client_update_continues(status) == FALSE

\* SAIL_TRY(update_lib_path(their_codecs_path)): whether init_context returns
\* the status at once.
client_update_aborts(status) == status # SAIL_OK

\* Variant: a pass that fails clears the flag again, so that the next call
\* runs the pass anew.
retry_after_failure(context, status) ==
    [context EXCEPT !.initialized = FALSE, !.status = status]

\* SAIL_TRY(update_lib_path(...)) returns the status; the context stays as the
\* pass left it.
abandon_pass(context, status) == [context EXCEPT !.status = status]

\* Variant: the preload flag is looked at by every call, also by one that finds
\* the context initialized.
preload_on_every_call(plat, fsys, context, flags) ==
    IF SAIL_FLAG_PRELOAD_CODECS \in flags
    THEN [context EXCEPT !.codec_info_node = preload_codecs(plat, fsys, @)]
    ELSE context

\* if (context->initialized) return SAIL_OK: the context as the early return
\* leaves it.
return_initialized(plat, fsys, context, flags) == context

\* init_context on a non-NULL context:
\* [status, context, loader, codecs_memo, client_memo, scanned, lib_fail, getenv].
\* scanned tells whether the call went past the initialized check; lib_fail is
\* the index of the search path whose update_lib_path failed (0: none); getenv
\* counts the reads of each override variable the call made.
init_context(plat, fsys, env, ldr, codecs_memo, client_memo, context, flags, os) ==
    IF already_initialized(context)
    THEN [status |-> SAIL_OK,
          context |-> return_initialized(plat, fsys, context, flags),
          loader |-> ldr,
          codecs_memo |-> codecs_memo, client_memo |-> client_memo,
          scanned |-> FALSE, lib_fail |-> 0,
          getenv |-> [SAIL_CODECS_PATH |-> 0, SAIL_MY_CODECS_PATH |-> 0]]
    ELSE
        LET started == [mark_initialized(context) EXCEPT !.scans = @ + 1,
                                                         !.flags = flags]
            our == sail_codecs_path(plat, codecs_memo, env, os.lookup, os.garbage)
            up1 == update_lib_path(plat, fsys, ldr, Deref(our.path), os.os_ok[1])
        IN
        IF up1.status # SAIL_OK
        THEN [status |-> up1.status,
              context |-> abandon_pass(started, up1.status),
              loader |-> up1.loader,
              codecs_memo |-> our.memo, client_memo |-> client_memo,
              scanned |-> TRUE, lib_fail |-> 1,
              getenv |-> [SAIL_CODECS_PATH |-> our.getenv, SAIL_MY_CODECS_PATH |-> 0]]
        ELSE
            LET their == client_codecs_path(plat, client_memo, env)
                up2 == IF their.path # NullStr
                       THEN update_lib_path(plat, fsys, up1.loader, Deref(their.path),
                                            os.os_ok[2])
                       ELSE [status |-> SAIL_OK, loader |-> up1.loader]
                reads == [SAIL_CODECS_PATH |-> our.getenv,
                          SAIL_MY_CODECS_PATH |-> their.getenv]
            IN
            IF client_update_aborts(up2.status)
            THEN [status |-> up2.status,
                  context |-> abandon_pass(started, up2.status),
                  loader |-> up2.loader,
                  codecs_memo |-> our.memo, client_memo |-> their.memo,
                  scanned |-> TRUE, lib_fail |-> 2, getenv |-> reads]
            ELSE
                LET codec_search_paths == <<our.path, their.path>>
                    walked == scan_paths(plat, fsys, codec_search_paths, 1,
                                         started.codec_info_node)
                    chain == IF walked.status = SAIL_OK
                                /\ SAIL_FLAG_PRELOAD_CODECS \in flags
                             THEN preload_codecs(plat, fsys, walked.chain)
                             ELSE walked.chain
                IN  [status |-> walked.status,
                     context |-> [started EXCEPT !.codec_info_node = chain,
                                                 !.status = walked.status],
                     loader |-> up2.loader,
                     codecs_memo |-> our.memo, client_memo |-> their.memo,
                     scanned |-> TRUE,
                     lib_fail |-> IF up2.status # SAIL_OK THEN 2 ELSE 0,
                     getenv |-> reads]

-----------------------------------------------------------------------------
(* control_tls_context and the public entry points *)

NoCall == [op |-> "none", thread |-> "", status |-> SAIL_OK, context |-> 0,
           scanned |-> FALSE, lib_fail |-> 0, flags |-> {}]

\* *context of a call that returned without assigning it
Unassigned == 0 - 1

\* Variant: ALLOCATE allocates whether or not a context exists.
always_alloc(tls) == TRUE

\* if (tls_context == NULL)
needs_alloc(tls) == tls = 0

\* What sail_malloc may answer when it is called: a free cell, or 0 when memory
\* cannot be obtained.
MallocAnswers(tls, hp) ==
    IF needs_alloc(tls) THEN {0} \cup { c \in ContextIds : ~hp[c].live } ELSE {0}

\* case SAIL_CONTEXT_ALLOCATE: [status, tls, heap, context]
control_allocate(t, tls, hp, ptr) ==
    IF needs_alloc(tls)
    THEN IF ptr = 0
         THEN [status |-> SAIL_ERROR_MEMORY_ALLOCATION, tls |-> tls, heap |-> hp,
               context |-> Unassigned]
         ELSE [status |-> SAIL_OK, tls |-> ptr,
               heap |-> [hp EXCEPT ![ptr] = alloc_context(t)], context |-> ptr]
    ELSE [status |-> SAIL_OK, tls |-> tls, heap |-> hp, context |-> tls]

\* destroy_context: frees the chain and the context; NULL is accepted.
destroy_context(hp, context) ==
    IF context = 0 THEN hp ELSE [hp EXCEPT ![context] = Free]

Allocate(t) ==
    \E ptr \in MallocAnswers(tls_context[t], heap) :
        LET a == control_allocate(t, tls_context[t], heap, ptr) IN
        /\ tls_context' = [tls_context EXCEPT ![t] = a.tls]
        /\ heap' = a.heap
        /\ ret' = [op |-> "allocate", thread |-> t, status |-> a.status,
                   context |-> a.context, scanned |-> FALSE, lib_fail |-> 0, flags |-> {}]
        /\ UNCHANGED <<platform, fs, environ, loader, codecs_path_memo,
                       client_path_memo, discoveries, getenv_calls, path_in, path_out, levelVars>>

\* Variant: FETCH creates the context when there is none.
FetchAllocating(t) ==
    \E ptr \in MallocAnswers(tls_context[t], heap) :
        LET a == control_allocate(t, tls_context[t], heap, ptr) IN
        /\ tls_context' = [tls_context EXCEPT ![t] = a.tls]
        /\ heap' = a.heap
        /\ ret' = [op |-> "fetch", thread |-> t, status |-> SAIL_OK,
                   context |-> a.tls, scanned |-> FALSE, lib_fail |-> 0, flags |-> {}]
        /\ UNCHANGED <<platform, fs, environ, loader, codecs_path_memo,
                       client_path_memo, discoveries, getenv_calls, path_in, path_out, levelVars>>

Fetch(t) ==
    /\ ret' = [op |-> "fetch", thread |-> t, status |-> SAIL_OK,
               context |-> tls_context[t], scanned |-> FALSE, lib_fail |-> 0, flags |-> {}]
    /\ UNCHANGED <<platform, fs, environ, loader, tls_context, heap,
                   codecs_path_memo, client_path_memo, discoveries, getenv_calls, path_in, path_out, levelVars>>

\* Variant: DESTROY frees the context and leaves tls_context pointing at it.
DestroyKeepingSlot(t) ==
    /\ heap' = destroy_context(heap, tls_context[t])
    /\ ret' = [op |-> "destroy", thread |-> t, status |-> SAIL_OK,
               context |-> Unassigned, scanned |-> FALSE, lib_fail |-> 0, flags |-> {}]
    /\ UNCHANGED <<platform, fs, environ, loader, tls_context, codecs_path_memo,
                   client_path_memo, discoveries, getenv_calls, path_in, path_out, levelVars>>

\* Variant: DESTROY releases the contexts of every thread, as if tls_context
\* were one static shared by the process.
DestroyProcessWide(t) ==
    /\ heap' = [c \in ContextIds |-> Free]
    /\ tls_context' = [u \in Threads |-> 0]
    /\ ret' = [op |-> "destroy", thread |-> t, status |-> SAIL_OK,
               context |-> Unassigned, scanned |-> FALSE, lib_fail |-> 0, flags |-> {}]
    /\ UNCHANGED <<platform, fs, environ, loader, codecs_path_memo,
                   client_path_memo, discoveries, getenv_calls, path_in, path_out,
                   levelVars>>

\* case SAIL_CONTEXT_DESTROY
Destroy(t) ==
    /\ heap' = destroy_context(heap, tls_context[t])
    /\ tls_context' = [tls_context EXCEPT ![t] = 0]
    /\ ret' = [op |-> "destroy", thread |-> t, status |-> SAIL_OK,
               context |-> Unassigned, scanned |-> FALSE, lib_fail |-> 0, flags |-> {}]
    /\ UNCHANGED <<platform, fs, environ, loader, codecs_path_memo,
                   client_path_memo, discoveries, getenv_calls, path_in, path_out, levelVars>>

\* An on-demand load_codec_by_codec_info on the n-th descriptor of the thread's
\* registry.
LoadCodec(t, n) ==
    /\ tls_context[t] # 0
    /\ n \in 1..Len(heap[tls_context[t]].codec_info_node)
    /\ heap[tls_context[t]].codec_info_node[n].loads < MaxLoads
    /\ LET c == tls_context[t]
           loaded == load_codec_by_codec_info(platform, fs, heap[c].codec_info_node[n])
       IN  /\ heap' = [heap EXCEPT ![c].codec_info_node[n] = loaded]
           /\ ret' = [op |-> "load", thread |-> t,
                      status |-> IF loaded.codec THEN SAIL_OK ELSE SAIL_ERROR_CODEC_LOAD,
                      context |-> c, scanned |-> FALSE, lib_fail |-> 0, flags |-> {}]
    /\ UNCHANGED <<platform, fs, environ, loader, tls_context, codecs_path_memo,
                   client_path_memo, discoveries, getenv_calls, path_in, path_out,
                   levelVars>>

\* What the C library may do with the string a getenv pointer refers to when
\* the variable is set again or unset: keep it, overwrite it in place with the
\* new value, or release its storage.
EnvStorage(plat, aliased, value) ==
    IF plat = "posix" /\ aliased
    THEN IF value = NullStr THEN {"kept", "released"}
         ELSE {"kept", "overwritten", "released"}
    ELSE {"kept"}

\* The resolver statics after the variable they may point into was changed.
\* env = getenv(...) keeps the pointer, not a copy (lines 109, 136);
\* _dupenv_s (lines 60, 134) copies.
after_setenv(memo, value, storage) ==
    IF ~memo.from_getenv THEN memo
    ELSE CASE storage = "kept" -> memo
           [] storage = "overwritten" -> [memo EXCEPT !.env = value]
           [] storage = "released" -> [memo EXCEPT !.env = Ptr(GARBAGE)]

\* The application changes an override variable: setenv / unsetenv.
Setenv(name, value) ==
    /\ environ[name] # value
    /\ LET aliased ==
               \E t \in Threads :
                   IF name = "SAIL_CODECS_PATH" THEN codecs_path_memo[t].from_getenv
                   ELSE client_path_memo[t].from_getenv
       IN  \E storage \in EnvStorage(platform, aliased, value) :
               /\ environ' = [environ EXCEPT ![name] = value]
               /\ codecs_path_memo' =
                      IF name = "SAIL_CODECS_PATH"
                      THEN [t \in Threads |->
                               after_setenv(codecs_path_memo[t], value, storage)]
                      ELSE codecs_path_memo
               /\ client_path_memo' =
                      IF name = "SAIL_MY_CODECS_PATH"
                      THEN [t \in Threads |->
                               after_setenv(client_path_memo[t], value, storage)]
                      ELSE client_path_memo
               /\ ret' = [op |-> "setenv", thread |-> "", status |-> SAIL_OK,
                          context |-> Unassigned, scanned |-> FALSE, lib_fail |-> 0,
                          flags |-> {}]
    /\ UNCHANGED <<platform, fs, loader, tls_context, heap, discoveries,
                   getenv_calls, path_in, path_out, levelVars>>

\* current_tls_context_with_flags: allocate, then init_context.
CurrentTlsContextWithFlags(t, flags) ==
    \E ptr \in MallocAnswers(tls_context[t], heap) :
        LET a == control_allocate(t, tls_context[t], heap, ptr) IN
        IF a.status # SAIL_OK
        THEN /\ ret' = [op |-> "init", thread |-> t, status |-> a.status,
                        context |-> a.context, scanned |-> FALSE, lib_fail |-> 0,
                        flags |-> flags]
             /\ UNCHANGED <<platform, fs, environ, loader, tls_context, heap,
                            codecs_path_memo, client_path_memo, discoveries, getenv_calls,
                            path_in, path_out, levelVars>>
        ELSE
            \E os \in OsAnswers(platform, fs, environ, codecs_path_memo[t],
                                 client_path_memo[t], a.heap[a.tls]) :
            LET r == init_context(platform, fs, environ, loader, codecs_path_memo[t],
                                  client_path_memo[t], a.heap[a.tls], flags, os)
            IN  /\ r.scanned => discoveries < MaxDiscoveries
                /\ tls_context' = [tls_context EXCEPT ![t] = a.tls]
                /\ heap' = [a.heap EXCEPT ![a.tls] = r.context]
                /\ loader' = r.loader
                /\ codecs_path_memo' = [codecs_path_memo EXCEPT ![t] = r.codecs_memo]
                /\ client_path_memo' = [client_path_memo EXCEPT ![t] = r.client_memo]
                /\ discoveries' = IF r.scanned THEN discoveries + 1 ELSE discoveries
                /\ ret' = [op |-> "init", thread |-> t, status |-> r.status,
                           context |-> a.context, scanned |-> r.scanned,
                           lib_fail |-> r.lib_fail, flags |-> flags]
                /\ getenv_calls' = [name \in DOMAIN getenv_calls |->
                                       getenv_calls[name] + r.getenv[name]]
                /\ UNCHANGED <<platform, fs, environ, path_in, path_out, levelVars>>

\* current_tls_context: current_tls_context_with_flags with no flag.
CurrentTlsContext(t) == CurrentTlsContextWithFlags(t, {})

-----------------------------------------------------------------------------
(* The specification of the context lifecycle *)

Environments ==
    [SAIL_CODECS_PATH : {NullStr, Ptr(DIR_MISSING), Ptr(DIR_EMPTY), Ptr(DIR_SUFFIXED)},
     SAIL_MY_CODECS_PATH : {NullStr, Ptr(DIR_USER), Ptr(DIR_MISSING),
                            Ptr(SAIL_CODECS_PATH)}]

\* Doubles: a number or NaN.
Number(v) == [nan |-> FALSE, v |-> v]
NaN == [nan |-> TRUE, v |-> 0]

\* a < b, a <= b and a >= b on doubles: false when either is NaN.
Less(a, b) == ~a.nan /\ ~b.nan /\ a.v < b.v
LessEq(a, b) == ~a.nan /\ ~b.nan /\ a.v <= b.v
GreaterEq(a, b) == ~a.nan /\ ~b.nan /\ a.v >= b.v

\* sail_alloc_compression_level leaves a zeroed structure.
NoLevel == [level_min |-> Number(0), level_max |-> Number(0),
            level_default |-> Number(0), level_step |-> Number(0)]
NotAsked == [called |-> FALSE, valid |-> FALSE]

NoGetenvCalls == [SAIL_CODECS_PATH |-> 0, SAIL_MY_CODECS_PATH |-> 0]

NoPathIn == [path |-> <<>>, file |-> Directory(<<>>, <<>>)]
NoPathOut == [called |-> FALSE, status |-> SAIL_OK, node |-> NoNode]

Init ==
    /\ platform \in Platforms
    /\ fs \in FileSystems
    /\ environ \in Environments
    /\ loader = NoLoaderPath
    /\ tls_context = [t \in Threads |-> 0]
    /\ heap = [c \in ContextIds |-> Free]
    /\ codecs_path_memo = [t \in Threads |-> NotCalled]
    /\ client_path_memo = [t \in Threads |-> NotCalled]
    /\ discoveries = 0
    /\ getenv_calls = NoGetenvCalls
    /\ ret = NoCall
    /\ path_in = NoPathIn
    /\ path_out = NoPathOut
    /\ level_in = NoLevel
    /\ level_out = NotAsked

Step(t) ==
    \/ Allocate(t)
    \/ Fetch(t)
    \/ Destroy(t)
    \/ \E flags \in Flags : CurrentTlsContextWithFlags(t, flags)
    \/ CurrentTlsContext(t)

Next == Step(MainThread)

Spec == Init /\ [][Next]_vars

-----------------------------------------------------------------------------
(* The specification of module path derivation alone *)

PathDirs == { <<"/", "x">>, <<"/", "x">> \o CODEC_INFO, <<>> }
PathStems == { <<"/", "j", "p", "e", "g">>, <<"/", "a">> }
PathExts == { CODEC_INFO, CODEC_INFO \o BAK, TXT, <<>>,
              <<".", "c", "o", "d", "e", "c">>, CODEC_INFO \o CODEC_INFO }

PathInputs ==
    { [path |-> d \o stem \o ext, file |-> File(stem, ext, parses, FALSE)] :
        d \in PathDirs, stem \in PathStems, ext \in PathExts, parses \in BOOLEAN }

InitPath ==
    /\ platform \in Platforms
    /\ fs = FileSystem([k \in 1..3 |-> k])
    /\ environ = [SAIL_CODECS_PATH |-> NullStr, SAIL_MY_CODECS_PATH |-> NullStr]
    /\ loader = NoLoaderPath
    /\ tls_context = [t \in Threads |-> 0]
    /\ heap = [c \in ContextIds |-> Free]
    /\ codecs_path_memo = [t \in Threads |-> NotCalled]
    /\ client_path_memo = [t \in Threads |-> NotCalled]
    /\ discoveries = 0
    /\ getenv_calls = NoGetenvCalls
    /\ ret = NoCall
    /\ path_in \in PathInputs
    /\ path_out = NoPathOut
    /\ level_in = NoLevel
    /\ level_out = NotAsked

DerivePath ==
    /\ ~path_out.called
    /\ LET built == build_codec_from_codec_info(platform, path_in.path, path_in.file,
                                                <<0, 0>>)
       IN  path_out' = [called |-> TRUE, status |-> built.status, node |-> built.node]
    /\ UNCHANGED <<platform, fs, environ, loader, tls_context, heap, codecs_path_memo,
                   client_path_memo, discoveries, getenv_calls, ret, path_in, levelVars>>

NextPath == DerivePath

SpecPath == InitPath /\ [][NextPath]_vars

-----------------------------------------------------------------------------
(* The specification of two threads, each with its own context *)

InitThreads ==
    /\ platform \in Platforms
    /\ fs = FileSystem(<<1, 2, 3>>)
    /\ environ = [SAIL_CODECS_PATH |-> Ptr(DIR_USER),
                  SAIL_MY_CODECS_PATH |-> Ptr(DIR_EMPTY)]
    /\ loader = NoLoaderPath
    /\ tls_context = [t \in Threads |-> 0]
    /\ heap = [c \in ContextIds |-> Free]
    /\ codecs_path_memo = [t \in Threads |-> NotCalled]
    /\ client_path_memo = [t \in Threads |-> NotCalled]
    /\ discoveries = 0
    /\ getenv_calls = NoGetenvCalls
    /\ ret = NoCall
    /\ path_in = NoPathIn
    /\ path_out = NoPathOut
    /\ level_in = NoLevel
    /\ level_out = NotAsked

NextThreads == \E t \in Threads : Step(t)

SpecThreads == InitThreads /\ [][NextThreads]_vars

-----------------------------------------------------------------------------
(* The specification of eager and on-demand loading: two threads, one that
   may preload and one that loads on demand *)

InitLoad ==
    /\ platform \in Platforms
    /\ fs \in {FileSystem(<<1, 2, 3>>), FileSystem(<<2, 1, 3>>)}
    /\ environ \in [SAIL_CODECS_PATH : {NullStr},
                     SAIL_MY_CODECS_PATH : {NullStr, Ptr(DIR_MISSING)}]
    /\ loader = NoLoaderPath
    /\ tls_context = [t \in Threads |-> 0]
    /\ heap = [c \in ContextIds |-> Free]
    /\ codecs_path_memo = [t \in Threads |-> NotCalled]
    /\ client_path_memo = [t \in Threads |-> NotCalled]
    /\ discoveries = 0
    /\ getenv_calls = NoGetenvCalls
    /\ ret = NoCall
    /\ path_in = NoPathIn
    /\ path_out = NoPathOut
    /\ level_in = NoLevel
    /\ level_out = NotAsked

\* The positions of the descriptors in the thread's registry.
DescriptorsOf(t) ==
    IF tls_context[t] = 0 THEN {}
    ELSE 1..Len(heap[tls_context[t]].codec_info_node)

StepLoad(t) ==
    \/ Destroy(t)
    \/ \E flags \in Flags : CurrentTlsContextWithFlags(t, flags)
    \/ \E n \in DescriptorsOf(t) : LoadCodec(t, n)

NextLoad == \E t \in Threads : StepLoad(t)

SpecLoad == InitLoad /\ [][NextLoad]_vars

-----------------------------------------------------------------------------
(* The specification of one thread in a changing environment *)

InitEnv ==
    /\ platform \in Platforms
    /\ fs = FileSystem(<<1, 2, 3>>)
    /\ environ \in [SAIL_CODECS_PATH : {NullStr, Ptr(DIR_EMPTY)},
                     SAIL_MY_CODECS_PATH : {NullStr, Ptr(DIR_USER)}]
    /\ loader = NoLoaderPath
    /\ tls_context = [t \in Threads |-> 0]
    /\ heap = [c \in ContextIds |-> Free]
    /\ codecs_path_memo = [t \in Threads |-> NotCalled]
    /\ client_path_memo = [t \in Threads |-> NotCalled]
    /\ discoveries = 0
    /\ getenv_calls = NoGetenvCalls
    /\ ret = NoCall
    /\ path_in = NoPathIn
    /\ path_out = NoPathOut
    /\ level_in = NoLevel
    /\ level_out = NotAsked

EnvValues == {NullStr, Ptr(DIR_USER)}

NextEnv ==
    \/ Step(MainThread)
    \/ \E name \in DOMAIN environ, value \in EnvValues : Setenv(name, value)

SpecEnv == InitEnv /\ [][NextEnv]_vars

-----------------------------------------------------------------------------
(* The specification of the loader path: two threads that create and destroy
   their contexts in a POSIX process started with or without LD_LIBRARY_PATH *)

\* A directory the process was started with in LD_LIBRARY_PATH.
DIR_PRESET == <<"/", "x">>

\* LD_LIBRARY_PATH at process start: unset, or one directory.
LoaderPaths ==
    { [NoLoaderPath EXCEPT !.LD_LIBRARY_PATH = preset] :
        preset \in {NullStr, Ptr(DIR_PRESET)} }

\* A POSIX build: LD_LIBRARY_PATH is the loader path of that branch alone.
InitLoaderPath ==
    /\ platform = "posix"
    /\ fs = FileSystem(<<1, 2, 3>>)
    /\ environ \in [SAIL_CODECS_PATH : {NullStr, Ptr(DIR_EMPTY)},
                     SAIL_MY_CODECS_PATH : {NullStr, Ptr(DIR_USER), Ptr(DIR_MISSING),
                                            Ptr(SAIL_CODECS_PATH)}]
    /\ loader \in LoaderPaths
    /\ tls_context = [t \in Threads |-> 0]
    /\ heap = [c \in ContextIds |-> Free]
    /\ codecs_path_memo = [t \in Threads |-> NotCalled]
    /\ client_path_memo = [t \in Threads |-> NotCalled]
    /\ discoveries = 0
    /\ getenv_calls = NoGetenvCalls
    /\ ret = NoCall
    /\ path_in = NoPathIn
    /\ path_out = NoPathOut
    /\ level_in = NoLevel
    /\ level_out = NotAsked

StepLoaderPath(t) ==
    \/ Destroy(t)
    \/ CurrentTlsContext(t)

NextLoaderPath == \E t \in Threads : StepLoaderPath(t)

SpecLoaderPath == InitLoaderPath /\ [][NextLoaderPath]_vars

-----------------------------------------------------------------------------
(* The specification of compression_level::is_valid alone *)

\* Variant: the bounds may coincide.
is_valid_or_equal(cl) ==
    /\ LessEq(cl.level_min, cl.level_max)
    /\ GreaterEq(cl.level_default, cl.level_min)
    /\ LessEq(cl.level_default, cl.level_max)

\* compression_level::is_valid
is_valid(cl) ==
    /\ Less(cl.level_min, cl.level_max)
    /\ GreaterEq(cl.level_default, cl.level_min)
    /\ LessEq(cl.level_default, cl.level_max)

LevelValues == {NaN} \cup { Number(v) : v \in {0 - 1, 0, 1, 5, 6, 9, 10, 15} }

Levels == [level_min : LevelValues, level_max : LevelValues,
           level_default : LevelValues, level_step : LevelValues]

InitLevel ==
    /\ platform \in Platforms
    /\ fs = FileSystem(<<1, 2, 3>>)
    /\ environ = [SAIL_CODECS_PATH |-> NullStr, SAIL_MY_CODECS_PATH |-> NullStr]
    /\ loader = NoLoaderPath
    /\ tls_context = [t \in Threads |-> 0]
    /\ heap = [c \in ContextIds |-> Free]
    /\ codecs_path_memo = [t \in Threads |-> NotCalled]
    /\ client_path_memo = [t \in Threads |-> NotCalled]
    /\ discoveries = 0
    /\ getenv_calls = NoGetenvCalls
    /\ ret = NoCall
    /\ path_in = NoPathIn
    /\ path_out = NoPathOut
    /\ level_in \in Levels
    /\ level_out = NotAsked

IsValid ==
    /\ ~level_out.called
    /\ level_out' = [called |-> TRUE, valid |-> is_valid(level_in)]
    /\ UNCHANGED <<platform, fs, environ, loader, tls_context, heap, codecs_path_memo,
                   client_path_memo, discoveries, getenv_calls, ret, path_in, path_out,
                   level_in>>

NextLevel == IsValid

SpecLevel == InitLevel /\ [][NextLevel]_vars

-----------------------------------------------------------------------------
(* Properties *)

Chain(c) == heap[c].codec_info_node

\* The live contexts thread t allocated.
LiveOf(hp, t) == { c \in ContextIds : hp[c].live /\ hp[c].owner = t }

\* The i-th search path a thread resolved (1: sail_codecs_path, 2: client_codecs_path).
SearchPath(t, i) ==
    IF i = 1 THEN codecs_path_memo[t].env ELSE client_path_memo[t].env

\* C1: idempotent initialization.  A call of current_tls_context_with_flags on
\* a context that is already initialized returns SAIL_OK without running the
\* discovery pass and leaves every context (its flag, its registry and the
\* order of the registry), the loader path and the resolved search paths as
\* they were; the pass has run exactly once on every initialized context and
\* never on an uninitialized one.
C1_IdempotentInitialization ==
    [][ /\ \A c \in ContextIds :
             heap'[c].scans = (IF heap'[c].initialized THEN 1 ELSE 0)
        /\ \A t \in Threads :
             ( /\ ret'.op = "init" /\ ret'.thread = t
               /\ tls_context[t] # 0
               /\ heap[tls_context[t]].initialized )
             => /\ ~ret'.scanned
                /\ ret'.status = SAIL_OK
                /\ ret'.context = tls_context[t]
                /\ heap' = heap
                /\ UNCHANGED <<tls_context, loader, discoveries, codecs_path_memo,
                               client_path_memo, getenv_calls>> ]_vars

\* C1 witness: a second call has returned on a context whose single pass
\* registered descriptors.
C1_Witness ==
    /\ ret.op = "init" /\ ~ret.scanned /\ ret.context \in ContextIds
    /\ heap[ret.context].scans = 1
    /\ Len(Chain(ret.context)) >= 2

\* Lexicographic order on <<search path index, enumeration position>>.
DiscoveredBefore(a, b) == a[1] < b[1] \/ (a[1] = b[1] /\ a[2] < b[2])

\* C3: order preservation.  Every registry lists its descriptors in discovery
\* order: those of the primary search path before those of the secondary one,
\* and within one path in the order the directory enumeration produced them;
\* each descriptor is the one parsed from the entry at that place.
C3_OrderPreservation ==
    \A c \in ContextIds :
        heap[c].live =>
            /\ \A m, n \in 1..Len(Chain(c)) :
                 m < n => DiscoveredBefore(Chain(c)[m].from, Chain(c)[n].from)
            /\ \A n \in 1..Len(Chain(c)) :
                 LET from == Chain(c)[n].from
                     codecs_path == Deref(SearchPath(heap[c].owner, from[1]))
                 IN  /\ from[1] \in 1..2
                     /\ from[2] \in 1..Len(fs[codecs_path].entries)
                     /\ Chain(c)[n].info =
                            build_full_path(platform, codecs_path,
                                            fs[codecs_path].entries[from[2]].name)

\* C3 witness: a registry with two descriptors of the primary path followed by
\* one of the secondary path.
C3_Witness ==
    \E c \in ContextIds :
        /\ heap[c].live /\ Len(Chain(c)) >= 3
        /\ Chain(c)[1].from[1] = 1 /\ Chain(c)[2].from[1] = 1
        /\ Chain(c)[Len(Chain(c))].from[1] = 2

\* C4: destroy clears the singleton.  Every destroy returns SAIL_OK and leaves
\* the thread without a context; when there was none it changes nothing; and a
\* fetch that directly follows a destroy returns NULL.
C4_DestroyClearsSingleton ==
    [][ \A t \in Threads :
          /\ (ret'.op = "destroy" /\ ret'.thread = t)
             => /\ ret'.status = SAIL_OK
                /\ tls_context'[t] = 0
                /\ LiveOf(heap', t) = {}
                /\ tls_context[t] = 0
                   => UNCHANGED <<tls_context, heap, loader, discoveries,
                                  codecs_path_memo, client_path_memo, getenv_calls>>
          /\ (ret.op = "destroy" /\ ret.thread = t /\ ret'.op = "fetch" /\ ret'.thread = t)
             => ret'.status = SAIL_OK /\ ret'.context = 0 ]_vars

\* C4 witness: a fetch has returned NULL on a thread that had run discovery on a
\* context before and has destroyed it.
C4_Witness ==
    /\ ret.op = "fetch" /\ ret.context = 0
    /\ codecs_path_memo[ret.thread].codecs_path_called
    /\ LiveOf(heap, ret.thread) = {}

\* C5: a single live context per thread.  ALLOCATE on a thread that has a
\* context returns that context and changes no context; on a thread that has
\* none it either fails for lack of memory, storing nothing, or stores and
\* returns a new context with initialized = false and an empty registry; and
\* the contexts a thread has live are never more than the one tls_context names.
C5_SingleLiveContext ==
    [][ \A t \in Threads :
          /\ LiveOf(heap', t) = (IF tls_context'[t] = 0 THEN {} ELSE {tls_context'[t]})
          /\ (ret'.op = "allocate" /\ ret'.thread = t)
             => IF tls_context[t] # 0
                THEN /\ ret'.status = SAIL_OK
                     /\ ret'.context = tls_context[t]
                     /\ UNCHANGED <<tls_context, heap>>
                ELSE IF ret'.status = SAIL_OK
                THEN /\ ret'.context \in ContextIds
                     /\ ~heap[ret'.context].live
                     /\ tls_context' = [tls_context EXCEPT ![t] = ret'.context]
                     /\ heap' = [heap EXCEPT ![ret'.context] =
                                   [live |-> TRUE, initialized |-> FALSE,
                                    codec_info_node |-> <<>>, owner |-> t, scans |-> 0,
                                    flags |-> {}, status |-> NotRun]]
                ELSE UNCHANGED <<tls_context, heap>> ]_vars

\* C5 witness: ALLOCATE has returned the existing, initialized singleton with
\* its registry.
C5_Witness ==
    /\ ret.op = "allocate" /\ ret.context \in ContextIds
    /\ tls_context[ret.thread] = ret.context
    /\ heap[ret.context].initialized
    /\ Len(Chain(ret.context)) >= 1

\* C6: fetch is a pure read.  FETCH returns what tls_context holds and changes
\* nothing: not the slot, not a context, not the loader path, not the resolved
\* search paths, and it runs no discovery.
C6_FetchPureRead ==
    [][ \A t \in Threads :
          (ret'.op = "fetch" /\ ret'.thread = t)
          => /\ ret'.status = SAIL_OK
             /\ ret'.context = tls_context[t]
             /\ ~ret'.scanned
             /\ UNCHANGED <<tls_context, heap, loader, discoveries, codecs_path_memo,
                            client_path_memo, getenv_calls, environ, fs>> ]_vars

\* C6 witness: a fetch has returned NULL in a process that still has no context
\* and has run no discovery.
C6_Witness ==
    /\ ret.op = "fetch" /\ ret.context = 0
    /\ \A c \in ContextIds : ~heap[c].live
    /\ discoveries = 0

\* C7: whenever current_tls_context_with_flags has returned after calling
\* init_context (the allocation succeeded), with SAIL_OK or with an error, the
\* context is initialized.
C7_InitializedOnEveryReturn ==
    (ret.op = "init" /\ ret.context \in ContextIds)
    => /\ heap[ret.context].live
       /\ heap[ret.context].initialized

\* C7 witness: the call returned SAIL_ERROR_ENV_UPDATE from the loader path
\* extension for the primary path, before any directory was scanned.
C7_Witness ==
    /\ ret.op = "init" /\ ret.context \in ContextIds
    /\ ret.status = SAIL_ERROR_ENV_UPDATE /\ ret.lib_fail = 1
    /\ heap[ret.context].initialized
    /\ Chain(ret.context) = <<>>

\* Whether the thread's i-th search path is configured (resolved and not NULL).
Configured(t, i) == SearchPath(t, i) # NullStr

\* The enumeration positions of search path i that a chain holds descriptors of.
PositionsFrom(chain, i) ==
    { chain[n].from[2] : n \in { m \in 1..Len(chain) : chain[m].from[1] = i } }

\* A valid codec metadata/module pair: a regular file named <stem>.codec.info
\* that parses, with its module file <stem>.<suffix> beside it.
ValidPair(file) ==
    /\ file.kind = "file"
    /\ EndsWith(file.name, CODEC_INFO)
    /\ file.parses
    /\ file.module

\* A regular file named <stem>.codec.info that parses.
ParsableInfo(file) ==
    /\ file.kind = "file"
    /\ EndsWith(file.name, CODEC_INFO)
    /\ file.parses

\* C2: partial-failure isolation.  After a call that ran discovery and returned
\* SAIL_OK, the registry holds, for every configured and existing search
\* directory, exactly the descriptors of its valid metadata/module pairs: no
\* entry with a wrong suffix, with unparsable metadata or without its module
\* file is registered, and no valid pair is missing.
C2_PartialFailureIsolation ==
    (ret.op = "init" /\ ret.scanned /\ ret.status = SAIL_OK /\ ret.context \in ContextIds)
    => \A i \in 1..2 :
         Configured(ret.thread, i) =>
            LET codecs_path == Deref(SearchPath(ret.thread, i)) IN
            fs[codecs_path].exists =>
               PositionsFrom(Chain(ret.context), i) =
                  { k \in 1..Len(fs[codecs_path].entries) :
                      ValidPair(fs[codecs_path].entries[k]) }

C9_UnreadableDirectoryTolerated ==
    ( /\ ret.op = "init" /\ ret.scanned /\ ret.lib_fail = 0
      /\ ret.context \in ContextIds
      /\ \E i \in 1..2 : /\ Configured(ret.thread, i)
                         /\ ~fs[Deref(SearchPath(ret.thread, i))].exists )
    => /\ ret.status = SAIL_OK
       /\ \A i \in 1..2 :
            Configured(ret.thread, i) =>
               LET codecs_path == Deref(SearchPath(ret.thread, i)) IN
               IF ~fs[codecs_path].exists
               THEN PositionsFrom(Chain(ret.context), i) = {}
               ELSE \A k \in 1..Len(fs[codecs_path].entries) :
                       ParsableInfo(fs[codecs_path].entries[k])
                       => k \in PositionsFrom(Chain(ret.context), i)

\* The error kinds a missing suffix is not: allocation, parse, directory
\* listing and environment update errors.
OtherErrorKinds ==
    {SAIL_ERROR_MEMORY_ALLOCATION, SAIL_ERROR_PARSE_FILE, SAIL_ERROR_LIST_DIR,
     SAIL_ERROR_ENV_UPDATE}

\* C10: module path derivation.  For a parsable metadata file at P.codec.info
\* the call succeeds with the module path P.<platform suffix>; for a path that
\* holds no ".codec.info" it fails with a path-build error, none of the other
\* error kinds, and yields no descriptor.
C10_ModulePathDerivation ==
    path_out.called
    => /\ (EndsWith(path_in.path, CODEC_INFO) /\ codec_read_info(path_in.file))
          => /\ path_out.status = SAIL_OK
             /\ path_out.node.path =
                    StripSuffix(path_in.path, CODEC_INFO) \o <<".">> \o LIB_SUFFIX(platform)
       /\ ~Contains(path_in.path, CODEC_INFO)
          => /\ path_out.status # SAIL_OK
             /\ path_out.status \notin OtherErrorKinds
             /\ path_out.node = NoNode

\* What a registry lists: the metadata path and the module path of each
\* descriptor, in order.
Descriptors(c) ==
    [n \in 1..Len(Chain(c)) |-> <<Chain(c)[n].info, Chain(c)[n].path>>]

\* The positions of the descriptors that hold a loaded module.
Loaded(c) == { n \in 1..Len(Chain(c)) : Chain(c)[n].codec }

\* A context the discovery pass has returned on, with or without the flag.
PassedWith(c, preload) ==
    /\ heap[c].live
    /\ heap[c].status # NotRun
    /\ (SAIL_FLAG_PRELOAD_CODECS \in heap[c].flags) = preload

\* Two contexts whose owners resolved the same search paths.
SameSearchPaths(c1, c2) ==
    \A i \in 1..2 : SearchPath(heap[c1].owner, i) = SearchPath(heap[c2].owner, i)

\* C11: eager preload never fails initialization and never removes a codec.
\* A pass run with SAIL_FLAG_PRELOAD_CODECS and a pass run without it over the
\* same search paths (neither meeting a loader path failure) return the same
\* status and leave the same descriptors in the same order, whichever modules
\* fail to load; and when a call that ran the pass with the flag returns, load
\* has been attempted exactly once on every registered descriptor.
C11_PreloadNeverFailsNorRemoves ==
    /\ \A c1, c2 \in ContextIds :
         ( /\ PassedWith(c1, TRUE) /\ PassedWith(c2, FALSE)
           /\ SameSearchPaths(c1, c2)
           /\ heap[c1].status # SAIL_ERROR_ENV_UPDATE
           /\ heap[c2].status # SAIL_ERROR_ENV_UPDATE )
         => /\ heap[c1].status = heap[c2].status
            /\ Descriptors(c1) = Descriptors(c2)
    /\ ( /\ ret.op = "init" /\ ret.scanned /\ ret.context \in ContextIds
         /\ SAIL_FLAG_PRELOAD_CODECS \in ret.flags )
       => \A n \in 1..Len(Chain(ret.context)) : Chain(ret.context)[n].loads = 1

\* C12: lazy-vs-eager equivalence.  When a call that ran the pass with
\* SAIL_FLAG_PRELOAD_CODECS returns, the descriptors of its registry that hold
\* a loaded module are those that hold one in any registry with the same
\* descriptors that was built without the flag and has had one on-demand load
\* call on each descriptor.
C12_LazyEagerEquivalence ==
    ( /\ ret.op = "init" /\ ret.scanned /\ ret.context \in ContextIds
      /\ SAIL_FLAG_PRELOAD_CODECS \in ret.flags )
    => \A c \in ContextIds :
         ( /\ PassedWith(c, FALSE)
           /\ Descriptors(c) = Descriptors(ret.context)
           /\ \A n \in 1..Len(Chain(c)) : Chain(c)[n].loads = 1 )
         => Loaded(ret.context) = Loaded(c)

\* The statics of the two resolvers of thread t.
Memos(t) == <<codecs_path_memo[t], client_path_memo[t]>>

\* C13: search path memoization.  When a call that ran the discovery pass
\* returns, each search path it resolved is the string the thread's first
\* resolution of that path returned (NULL for a secondary path that was not
\* configured), whatever the environment variables have been set to since,
\* also for a pass on a new context after a destroy.
C13_SearchPathMemoization ==
    (ret.op = "init" /\ ret.scanned)
    => \A i \in 1..2 :
         (Memos(ret.thread)[i].codecs_path_called /\ (i = 2 => ret.lib_fail # 1))
         => Memos(ret.thread)[i].env = Memos(ret.thread)[i].first

\* C14: thread-scoped singleton.  A call of allocate, ensure_initialized or
\* destroy by one thread leaves every other thread's tls_context (what its
\* fetch returns), the other thread's context with its initialized flag and
\* registry, and the other thread's resolved search paths as they were; and
\* no context is the singleton of two threads.
C14_ThreadScopedSingleton ==
    [][ \A t, u \in Threads :
          (t # u /\ ret'.thread = t /\ ret'.op \in {"allocate", "init", "destroy"})
          => /\ tls_context'[u] = tls_context[u]
             /\ LiveOf(heap', u) = LiveOf(heap, u)
             /\ tls_context[u] # 0 => heap'[tls_context[u]] = heap[tls_context[u]]
             /\ Memos(u)' = Memos(u)
             /\ tls_context'[t] # 0 => tls_context'[t] # tls_context'[u] ]_vars

\* C14 witness: both threads have run the pass, the last call was a destroy by
\* one of them, and the other still holds its initialized context with its
\* descriptors.
C14_Witness ==
    /\ ret.op = "destroy"
    /\ tls_context[ret.thread] = 0
    /\ \E u \in Threads \ {ret.thread} :
         /\ tls_context[u] # 0
         /\ heap[tls_context[u]].initialized
         /\ Len(Chain(tls_context[u])) >= 1
    /\ discoveries = 2

\* The threads that have resolved search path i.
Resolved(i) == { t \in Threads : Memos(t)[i].codecs_path_called }

\* C16 as stated: the process reads each override variable no more than once.
C16_ReadOncePerProcess ==
    /\ getenv_calls["SAIL_CODECS_PATH"] <= 1
    /\ getenv_calls["SAIL_MY_CODECS_PATH"] <= 1

\* C16, amended: each override variable is read at most once per thread.  The
\* reads of a variable number exactly the threads that have resolved its path,
\* however many contexts each of them has initialized.
C16_ReadOncePerThread ==
    /\ getenv_calls["SAIL_CODECS_PATH"] = Cardinality(Resolved(1))
    /\ getenv_calls["SAIL_MY_CODECS_PATH"] = Cardinality(Resolved(2))

\* C16 witness: one thread has run the pass on two contexts, one after the
\* other, and has read each variable once.
C16_Witness ==
    /\ discoveries = 2
    /\ Resolved(1) = {MainThread} /\ Resolved(2) = {MainThread}
    /\ getenv_calls["SAIL_CODECS_PATH"] = 1
    /\ getenv_calls["SAIL_MY_CODECS_PATH"] = 1

\* C15: compression level validity.  is_valid returns true exactly when
\* level_min < level_max and level_min <= level_default <= level_max, whatever
\* level_step is; {1, 9, 6, 1} is valid, {5, 5, 5, 1} and {0, 10, 15, 1} are
\* not.
C15_CompressionLevelValidity ==
    level_out.called
    => /\ level_out.valid <=>
              ( /\ Less(level_in.level_min, level_in.level_max)
                /\ LessEq(level_in.level_min, level_in.level_default)
                /\ LessEq(level_in.level_default, level_in.level_max) )
       /\ ( /\ level_in.level_min = Number(1) /\ level_in.level_max = Number(9)
            /\ level_in.level_default = Number(6) )
          => level_out.valid
       /\ ( /\ level_in.level_min = Number(5) /\ level_in.level_max = Number(5)
            /\ level_in.level_default = Number(5) )
          => ~level_out.valid
       /\ ( /\ level_in.level_min = Number(0) /\ level_in.level_max = Number(10)
            /\ level_in.level_default = Number(15) )
          => ~level_out.valid

\* C15 witness: is_valid has returned true on {1, 9, 6, 1}.
C15_Witness ==
    /\ level_out.called /\ level_out.valid
    /\ level_in = [level_min |-> Number(1), level_max |-> Number(9),
                   level_default |-> Number(6), level_step |-> Number(1)]

\* The directory entry a registered descriptor was built from.
EntryOf(c, n) ==
    LET from == Chain(c)[n].from
    IN  fs[Deref(SearchPath(heap[c].owner, from[1]))].entries[from[2]]

\* C17: suffix handling in the directory walk.  Every registered descriptor
\* comes from a regular file whose name ends with ".codec.info", and its
\* module path is the file's full path with that trailing suffix replaced by
\* "." and the platform module suffix, also when ".codec.info" occurs earlier
\* in the directory's or the file's name.
C17_SuffixHandling ==
    \A c \in ContextIds :
        heap[c].live =>
            \A n \in 1..Len(Chain(c)) :
                /\ sail_is_file(EntryOf(c, n))
                /\ EndsWith(EntryOf(c, n).name, CODEC_INFO)
                /\ EndsWith(Chain(c)[n].info, CODEC_INFO)
                /\ Chain(c)[n].path =
                       StripSuffix(Chain(c)[n].info, CODEC_INFO)
                           \o <<".">> \o LIB_SUFFIX(platform)

\* C18: primary path fallback on the win32 branch.  When SAIL_CODECS_PATH is
\* unset and the derivation from the library's own location fails at any
\* step, sail_codecs_path resolves to the compiled-in SAIL_CODECS_PATH.
C18_DerivationFallback ==
    \A t \in Threads :
        ( /\ platform = "win32"
          /\ codecs_path_memo[t].codecs_path_called
          /\ codecs_path_memo[t].derivation = "failed" )
        => codecs_path_memo[t].env = Ptr(SAIL_CODECS_PATH)

\* C19: the preload flag is honoured only by the call that runs the pass.  A
\* call with SAIL_FLAG_PRELOAD_CODECS on a context that was initialized without
\* the flag returns SAIL_OK and the context, runs no pass and leaves every
\* context, with every descriptor's loaded module and load count, as it was.
C19_PreloadOnlyAtInitialization ==
    [][ \A t \in Threads :
          ( /\ ret'.op = "init" /\ ret'.thread = t
            /\ SAIL_FLAG_PRELOAD_CODECS \in ret'.flags
            /\ tls_context[t] # 0
            /\ heap[tls_context[t]].initialized
            /\ SAIL_FLAG_PRELOAD_CODECS \notin heap[tls_context[t]].flags )
          => /\ ret'.status = SAIL_OK
             /\ ret'.context = tls_context[t]
             /\ ~ret'.scanned
             /\ heap' = heap
             /\ Loaded(tls_context[t])' = Loaded(tls_context[t]) ]_vars

\* C19 witness: such a call has returned on a registry that holds a descriptor
\* whose module file exists and is not loaded.
C19_Witness ==
    /\ ret.op = "init" /\ ~ret.scanned /\ ret.context \in ContextIds
    /\ SAIL_FLAG_PRELOAD_CODECS \in ret.flags
    /\ SAIL_FLAG_PRELOAD_CODECS \notin heap[ret.context].flags
    /\ heap[ret.context].status = SAIL_OK
    /\ \E n \in 1..Len(Chain(ret.context)) :
         /\ ~Chain(ret.context)[n].codec
         /\ Chain(ret.context)[n].path \in ModuleFiles(platform, fs)

\* C20: a failed initialization is never retried on the same context.  A
\* context whose pass returned SAIL_ERROR_ENV_UPDATE stays the singleton of its
\* thread, initialized and with an empty registry, for as long as it lives;
\* every later current_tls_context_with_flags on it returns SAIL_OK and the
\* context without running a pass, and a fetch returns it.
C20_FailedInitializationNotRetried ==
    [][ \A c \in ContextIds :
          (heap'[c].live /\ heap'[c].status = SAIL_ERROR_ENV_UPDATE)
          => /\ tls_context'[heap'[c].owner] = c
             /\ heap'[c].initialized
             /\ heap'[c].codec_info_node = <<>>
             /\ heap'[c].scans = 1
             /\ (heap[c].live /\ heap[c].status = SAIL_ERROR_ENV_UPDATE)
                => /\ heap'[c] = heap[c]
                   /\ (ret'.op \in {"init", "fetch"} /\ ret'.thread = heap[c].owner)
                      => /\ ret'.status = SAIL_OK
                         /\ ret'.context = c
                         /\ ~ret'.scanned ]_vars

\* C20 witness: a later call has returned SAIL_OK on a context whose pass had
\* failed with SAIL_ERROR_ENV_UPDATE for a directory that holds descriptors.
C20_Witness ==
    /\ ret.op = "init" /\ ~ret.scanned /\ ret.status = SAIL_OK
    /\ ret.context \in ContextIds
    /\ heap[ret.context].status = SAIL_ERROR_ENV_UPDATE
    /\ Chain(ret.context) = <<>>
    /\ \E i \in 1..2 :
         /\ Configured(ret.thread, i)
         /\ FindFiles(fs, Deref(SearchPath(ret.thread, i))) # <<>>

\* The "lib" subdirectory of a codecs path (POSIX).
LibOf(codecs_path) == codecs_path \o <<"/", "l", "i", "b">>

\* The i-th search path the environment configures on POSIX: the override
\* variable, for the primary path the compiled-in directory when it is unset.
ConfiguredPath(i) ==
    IF i = 2 THEN environ.SAIL_MY_CODECS_PATH
    ELSE IF environ.SAIL_CODECS_PATH # NullStr THEN environ.SAIL_CODECS_PATH
    ELSE Ptr(SAIL_CODECS_PATH)

\* Whether search path i is configured and its lib subdirectory exists.
HasLib(i) ==
    /\ ConfiguredPath(i) # NullStr
    /\ fs[Deref(ConfiguredPath(i))].exists
    /\ fs[Deref(ConfiguredPath(i))].lib

\* How often a directory is listed in LD_LIBRARY_PATH.
Occurrences(dir, ld_library_path) ==
    IF ld_library_path = NullStr THEN 0
    ELSE Cardinality({ k \in 1..Len(SplitAtColons(Deref(ld_library_path))) :
                         SplitAtColons(Deref(ld_library_path))[k] = dir })

\* LD_LIBRARY_PATH after the directories of a list were appended to it in turn.
RECURSIVE AppendedTo(_, _)
AppendedTo(ld_library_path, dirs) ==
    IF dirs = <<>> THEN ld_library_path
    ELSE AppendedTo(IF ld_library_path = NullStr THEN Ptr(Head(dirs))
                    ELSE Ptr(Deref(ld_library_path) \o <<":">> \o Head(dirs)),
                    Tail(dirs))

\* C21: the loader path accumulates without deduplication (POSIX).  Every
\* discovery pass, whether on a thread's first context, on a new context after
\* a destroy or on another thread's context, leaves LD_LIBRARY_PATH as its
\* previous value followed by the lib subdirectory of each configured search
\* path that has one and for which setenv did not fail, in search path order,
\* whether or not the value lists that directory already: each such directory
\* occurs once more per search path that names it, and the previous value is
\* a prefix of the new one.  A search path without a lib subdirectory adds
\* nothing and does not fail the extension; when no search path has one the
\* variable is left as it was and the call returns SAIL_OK.
C21_LoaderPathAccumulates ==
    [][ (platform = "posix" /\ ret'.op = "init" /\ ret'.scanned)
        => LET old == loader.LD_LIBRARY_PATH
               new == loader'.LD_LIBRARY_PATH
               extended == { i \in 1..2 :
                               /\ HasLib(i)
                               /\ ret'.lib_fail # i
                               /\ i = 2 => ret'.lib_fail = 0 }
               libs == [i \in 1..2 |-> LibOf(Deref(ConfiguredPath(i)))]
               added == IF extended = {1, 2} THEN <<libs[1], libs[2]>>
                        ELSE IF extended = {1} THEN <<libs[1]>>
                        ELSE IF extended = {2} THEN <<libs[2]>>
                        ELSE <<>>
           IN  /\ new = AppendedTo(old, added)
               /\ old # NullStr
                  => /\ new # NullStr
                     /\ SubSeq(Deref(new), 1, Len(Deref(old))) = Deref(old)
               /\ \A dir \in { LibOf(d) : d \in Dirs } :
                     Occurrences(dir, new) =
                        Occurrences(dir, old)
                           + Cardinality({ i \in extended : libs[i] = dir })
               /\ \A i \in 1..2 : ~HasLib(i) => ret'.lib_fail # i
               /\ (\A i \in 1..2 : ~HasLib(i))
                  => new = old /\ ret'.status = SAIL_OK ]_vars

\* C21 witness: the second discovery pass of a POSIX process has run in
\* another thread than the first, whose context is still live, and
\* LD_LIBRARY_PATH lists the lib subdirectory of a search path twice after the
\* directory the process was started with.
C21_Witness ==
    /\ platform = "posix"
    /\ ret.op = "init" /\ ret.scanned /\ ret.status = SAIL_OK
    /\ discoveries = 2
    /\ \E t \in Threads \ {ret.thread} : tls_context[t] # 0
    /\ HasLib(1) /\ ~HasLib(2)
    /\ Occurrences(LibOf(Deref(ConfiguredPath(1))), loader.LD_LIBRARY_PATH) = 2
    /\ Occurrences(DIR_PRESET, loader.LD_LIBRARY_PATH) = 1

====
